---------------------------- MODULE Spec2Model ----------------------------
(***************************************************************************)
(* CLUE clustering (cms-patatrack/pyclue).                                 *)
(*                                                                         *)
(*   clue::Vec<T>        alpaka/DataFormats/alpaka/Vec.h                   *)
(*   ClusteringAlgo<1>   include/Clustering.h                              *)
(*                                                                         *)
(* Three specifications share the definitions below:                       *)
(*   SpecVec   callers of one Vec: push_back from concurrent workers, one  *)
(*             atomic operation per step, and push_back_unsafe from the    *)
(*             host while no worker is inside a call;                      *)
(*   Spec      one ClusteringAlgo<1> engine driven by setPoints and        *)
(*             makeClusters calls (FairSpec: the same with the running     *)
(*             call always making progress);                               *)
(*   SpecFill  one makeClusters pass whose single grid bin is a Vec filled *)
(*             by one push_back worker per point.                          *)
(*                                                                         *)
(* Numbers.  float is modelled by the integers 0..FloatMax plus Inf, the   *)
(* value an overflowing product rounds to.  Vectors are functions on       *)
(* 0..len-1, so indices are the code's indices and -1 is its sentinel.     *)
(* m_size is a uint32_t; it would wrap only with 2^32 calls inside         *)
(* push_back at once, far beyond the worker counts modelled here, so its   *)
(* arithmetic is written without the modulus.                              *)
(***************************************************************************)
EXTENDS Integers, Sequences, FiniteSets, TLC

(* ------------------------------ bounds --------------------------------- *)
\* concurrent push_back callers of the Vec
NThreads == 3
\* largest capacity a Vec is constructed with
MaxCapacity == 2
\* number of push_back_unsafe calls the host makes
MaxUnsafe == 2
\* largest number of points handed to setPoints
MaxN == 2
\* coordinates are drawn from {0, 2, .., 2*MaxCoord}
MaxCoord == 1
\* weights are drawn from 1..MaxWeight
MaxWeight == 2
\* public calls (setPoints, makeClusters) made on one engine
MaxCalls == 4
\* entries localStack can hold before push_back fails to allocate
MaxStack == 6
\* coordinates of the parallel-fill pass are drawn from {0, 2, .., 2*FillMaxCoord}
FillMaxCoord == 2

(* ------------------------- program constants --------------------------- *)
\* std::numeric_limits<float>::max(), the top of the model's number line
FloatMax == 1000
\* what a float product beyond FloatMax rounds to
Inf == FloatMax + 1

VARIABLES
  \* clue::Vec
  m_data, m_size, m_capacity,
  \* one push_back call per worker: its position and its local previousSize
  pc, previousSize,
  \* history of the Vec's calls: result per caller, size each caller saw,
  \* and per slot the callers that wrote it, in order
  ret, sawSize, writers, unsafeCalls,
  \* the push_back calls whose overflow assertion fired
  reported,
  \* ClusteringAlgo configuration
  dc_, rhoc_, outlierDeltaFactor_, pointsPerTile_,
  \* points_
  n, coordinates_, weight, rho, delta, nearestHigher, followers,
  clusterIndex, isSeed,
  \* the running makeClusters call
  phase, localStack,
  \* history of the engine's calls
  calls, setPointsRet, returns, printed, stage, grid

vecVars == <<m_data, m_size, m_capacity, pc, previousSize, ret, sawSize,
             writers, unsafeCalls, reported>>
cfgVars == <<dc_, rhoc_, outlierDeltaFactor_, pointsPerTile_>>
inVars == <<n, coordinates_, weight>>
outVars == <<rho, delta, nearestHigher, followers, clusterIndex, isSeed>>
runVars == <<phase, localStack>>
histVars == <<calls, setPointsRet, returns, printed, stage, grid>>
engineVars == <<cfgVars, inVars, outVars, runVars, histVars>>
vars == <<vecVars, engineVars>>

(* ------------------------------ vectors -------------------------------- *)
\* std::vector as a function on 0..len-1
EmptyVec == [i \in {} |-> 0]
\* std::vector::resize(n, val): keeps the elements it has, fills only new ones
VecResize(v, len, val) == [i \in 0..(len - 1) |-> IF i \in DOMAIN v THEN v[i] ELSE val]

(***************************************************************************)
(*                               clue::Vec                                 *)
(***************************************************************************)
Threads == 1..NThreads
UnsafeCallers == (NThreads + 1)..(NThreads + MaxUnsafe)
Callers == Threads \cup UnsafeCallers
\* a caller that has not returned yet
NoRet == -2
\* content of a slot nobody has written
Unwritten == -1
\* each caller pushes its own element, so an overwrite is visible; worker t
\* of a grid fill pushes the index of its point, t - 1
Element(c) == c - 1

\* Vec(uint32_t size)
VecInit(cap) ==
  /\ m_capacity = cap
  /\ m_size = 0
  /\ m_data = [k \in 0..(cap - 1) |-> Unwritten]
  /\ pc = [t \in Threads |-> "start"]
  /\ previousSize = [t \in Threads |-> 0]
  /\ ret = [c \in Callers |-> NoRet]
  /\ sawSize = [c \in Callers |-> 0]
  /\ writers = [k \in 0..(cap - 1) |-> <<>>]
  /\ unsafeCalls = 0
  /\ reported = {}

\* the value atomicAdd(&m_size, 1) leaves in m_size
AtomicAddLost(size) == size
AtomicAdd(size) == size + 1

\* the value atomicSub(&m_size, 1) leaves in m_size
AtomicSub(size) == size - 1

\* push_back, line 37: reserve a slot
Reserve(t) ==
  /\ pc[t] = "start"
  /\ previousSize' = [previousSize EXCEPT ![t] = m_size]
  /\ sawSize' = [sawSize EXCEPT ![t] = m_size]
  /\ m_size' = AtomicAdd(m_size)
  /\ pc' = [pc EXCEPT ![t] = "reserved"]
  /\ UNCHANGED <<m_data, m_capacity, ret, writers, unsafeCalls, reported>>

\* push_back, lines 38-40: the slot is inside the capacity
WriteSlot(t) ==
  /\ pc[t] = "reserved"
  /\ previousSize[t] < m_capacity
  /\ m_data' = [m_data EXCEPT ![previousSize[t]] = Element(t)]
  /\ writers' = [writers EXCEPT ![previousSize[t]] = Append(@, t)]
  /\ ret' = [ret EXCEPT ![t] = previousSize[t]]
  /\ pc' = [pc EXCEPT ![t] = "done"]
  /\ UNCHANGED <<m_size, m_capacity, previousSize, sawSize, unsafeCalls, reported>>

\* assert(("Too few elemets reserved")), line 43: the operand is the address
\* of a string literal, which is never null; the assertion passes in a build
\* with assertions and is compiled out under NDEBUG
OverflowAssertFires == FALSE

\* push_back, lines 41-45: roll the reservation back, evaluate the assert,
\* return -1
Rollback(t) ==
  /\ pc[t] = "reserved"
  /\ ~(previousSize[t] < m_capacity)
  /\ m_size' = AtomicSub(m_size)
  /\ reported' = IF OverflowAssertFires THEN reported \cup {t} ELSE reported
  /\ ret' = [ret EXCEPT ![t] = -1]
  /\ pc' = [pc EXCEPT ![t] = "done"]
  /\ UNCHANGED <<m_data, m_capacity, previousSize, sawSize, writers, unsafeCalls>>

\* push_back_unsafe, the whole call; the host makes it only while no worker
\* is inside push_back
PushBackUnsafe ==
  /\ unsafeCalls < MaxUnsafe
  /\ \A t \in Threads : pc[t] # "reserved"
  /\ LET c == NThreads + unsafeCalls + 1
         prev == m_size
     IN /\ sawSize' = [sawSize EXCEPT ![c] = prev]
        /\ IF prev < m_capacity
             THEN /\ m_data' = [m_data EXCEPT ![prev] = Element(c)]
                  /\ writers' = [writers EXCEPT ![prev] = Append(@, c)]
                  /\ m_size' = m_size + 1
                  /\ ret' = [ret EXCEPT ![c] = prev]
             ELSE /\ m_size' = (m_size + 1) - 1
                  /\ ret' = [ret EXCEPT ![c] = -1]
                  /\ UNCHANGED <<m_data, writers>>
  /\ unsafeCalls' = unsafeCalls + 1
  /\ UNCHANGED <<m_capacity, pc, previousSize, reported>>

(***************************************************************************)
(*                     float arithmetic of the engine                      *)
(***************************************************************************)
\* float product: a result beyond FloatMax rounds to Inf
FMul(a, b) == IF a = Inf \/ b = Inf \/ a * b > FloatMax THEN Inf ELSE a * b
\* float sum: a finite sum beyond FloatMax rounds back to FloatMax
FAdd(a, b) == IF a = Inf \/ b = Inf THEN Inf
              ELSE IF a + b > FloatMax THEN FloatMax ELSE a + b

(***************************************************************************)
(*          collaborators of Clustering.h that live outside src/           *)
(***************************************************************************)
\* deltaPhi with an unbounded domain_t (the default): plain subtraction
deltaPhi(xi, xj) == xi - xj
\* the flat kernel: 1 for every pair in range
kernel(d, i, j) == 1
\* domain_t's defaults
DomainMin == 0 - FloatMax
DomainMax == FloatMax

Clamp(v, lo, hi) == IF v < lo THEN lo ELSE IF v > hi THEN hi ELSE v

\* tiles::getBin: the bin of a coordinate, clamped to the lattice
GetBin(T, x) ==
  IF T.dimMax = T.dimMin \/ T.NperDim = 0 THEN 0
  ELSE Clamp(((x - T.dimMin) * T.NperDim) \div (T.dimMax - T.dimMin), 0, T.NperDim - 1)

\* tiles::fill called for i = 0, 1, .. in turn: each bin lists its points in
\* increasing index order
RECURSIVE SerialFill(_, _, _, _)
SerialFill(T, x, i, bins) ==
  IF i \notin DOMAIN x THEN bins
  ELSE SerialFill(T, x, i + 1, [bins EXCEPT ![GetBin(T, x[i])] = Append(@, i)])

\* tiles::getBinsFromRange and tiles::searchBox for one dimension, read out
\* bin after bin: the candidate points in the order the loops visit them
RECURSIVE BinRange(_, _, _)
BinRange(bins, lo, hi) ==
  IF lo > hi THEN <<>> ELSE bins[lo] \o BinRange(bins, lo + 1, hi)

(***************************************************************************)
(*                      ClusteringAlgo<1>: the phases                      *)
(***************************************************************************)
\* distance(i, j) for Ndim = 1: sqrt(pow(deltaPhi, 2))
distance(x, i, j) ==
  LET d == deltaPhi(x[i], x[j]) IN IF d < 0 THEN 0 - d ELSE d

\* calculateNTiles: the value it returns
calculateNTiles(np, pointPerBin) == np \div pointPerBin

MinOf(S) == CHOOSE v \in S : \A u \in S : v <= u
MaxOf(S) == CHOOSE v \in S : \A u \in S : v >= u

\* calculateTileSize for Ndim = 1 (NperDim = pow(NTiles, 1.0)); the tile size
\* itself is (dimMax - dimMin) / NperDim, kept here as the two numbers
calculateTileSize(NTiles, x) ==
  [nTiles |-> NTiles, NperDim |-> NTiles,
   dimMin |-> MinOf({x[i] : i \in DOMAIN x}),
   dimMax |-> MaxOf({x[i] : i \in DOMAIN x})]

\* no grid was sized
NoGrid == [nTiles |-> -1, NperDim |-> -1, dimMin |-> 0, dimMax |-> 0]

\* prepareDataStructures
prepareDataStructures(T, x) ==
  SerialFill(T, x, 0, [b \in 0..(T.nTiles - 1) |-> <<>>])

\* the search box of point i for radius r, with the overflow branch of the
\* domain test (lines 224-227, 273-276): x + r exceeds the domain's max only
\* when r is Inf, and then the bins of [min, min + r] are visited again; the
\* underflow branch is an else-if and x - r < -FloatMax needs r = Inf too
SearchCandidates(T, bins, x, i, r) ==
  BinRange(bins, GetBin(T, x[i] - r), GetBin(T, x[i] + r))
    \o (IF FAdd(x[i], r) > DomainMax
          THEN BinRange(bins, GetBin(T, DomainMin), GetBin(T, DomainMin + r))
          ELSE <<>>)

\* calculateLocalDensity, the inner loops for point i: the sum it adds
RECURSIVE DensitySum(_, _, _, _, _)
DensitySum(cand, x, w, i, dc) ==
  IF cand = <<>> THEN 0
  ELSE LET j == Head(cand)
           d == distance(x, i, j)
       IN (IF d <= dc THEN kernel(d, i, j) * w[j] ELSE 0)
            + DensitySum(Tail(cand), x, w, i, dc)

\* calculateLocalDensity: rho[i] += ..., on top of whatever rho[i] holds
calculateLocalDensity(T, bins, x, w, rho0, dc) ==
  [i \in DOMAIN rho0 |->
     IF i \in DOMAIN x
       THEN rho0[i] + DensitySum(SearchCandidates(T, bins, x, i, dc), x, w, i, dc)
       ELSE rho0[i]]

\* the comparison that lets candidate j replace the nearest higher found so far
Closer(d, best) == d < best

\* calculateDistanceToHigher, the inner loops for point i (lines 288-306)
RECURSIVE NearestScan(_, _, _, _, _, _)
NearestScan(cand, x, r, i, dm, best) ==
  IF cand = <<>> THEN best
  ELSE LET j == Head(cand)
           foundHigher == (r[j] > r[i]) \/ ((r[j] = r[i]) /\ (j > i))
           d == distance(x, i, j)
           next == IF foundHigher /\ d <= dm /\ Closer(d, best.delta)
                     THEN [delta |-> d, nearestHigher |-> j]
                     ELSE best
       IN NearestScan(Tail(cand), x, r, i, dm, next)

\* calculateDistanceToHigher: (delta_i, nearestHigher_i) for every point
calculateDistanceToHigher(T, bins, x, r, dc, odf) ==
  LET dm == FMul(odf, dc)
  IN [i \in DOMAIN x |->
        NearestScan(SearchCandidates(T, bins, x, i, dm), x, r, i, dm,
                    [delta |-> FloatMax, nearestHigher |-> -1])]

\* findAndAssignClusters, lines 328-329
IsSeedPoint(deltai, rhoi, dc, rhoc) == (deltai > dc) /\ (rhoi >= rhoc)
IsOutlierPoint(deltai, rhoi, dc, rhoc, odf) ==
  (deltai > FMul(odf, dc)) /\ (rhoi < rhoc)

\* findAndAssignClusters, the first loop (lines 320-343) from point i on.
\* st: nClusters, localStack, clusterIndex, isSeed, followers, and oob, set
\* when a follower is registered under an index outside followers
RECURSIVE Classify(_, _, _, _, _, _, _)
Classify(i, np, d, r, nh, cfg, st) ==
  IF i >= np THEN st
  ELSE LET seed == IsSeedPoint(d[i], r[i], cfg.dc, cfg.rhoc)
           outlier == IsOutlierPoint(d[i], r[i], cfg.dc, cfg.rhoc, cfg.odf)
           cleared == [st.clusterIndex EXCEPT ![i] = -1]
           next ==
             IF seed
               THEN [st EXCEPT !.isSeed = [@ EXCEPT ![i] = 1],
                               !.clusterIndex = [cleared EXCEPT ![i] = st.nClusters],
                               !.nClusters = @ + 1,
                               !.localStack = Append(@, i)]
             ELSE IF ~outlier
               THEN IF nh[i] \in DOMAIN st.followers
                      THEN [st EXCEPT !.clusterIndex = cleared,
                                      !.followers = [@ EXCEPT ![nh[i]] = Append(@, i)]]
                      ELSE [st EXCEPT !.clusterIndex = cleared, !.oob = TRUE]
             ELSE [st EXCEPT !.clusterIndex = cleared]
       IN Classify(i + 1, np, d, r, nh, cfg, next)

(***************************************************************************)
(*                     ClusteringAlgo<1>: the engine                       *)
(***************************************************************************)
DcValues == {1, 3, FloatMax}
RhocValues == {2, 3}
OdfValues == {1, 2}
PptValues == 1..(MaxN + 1)
Coords == {2 * k : k \in 0..MaxCoord}
Weights == 1..MaxWeight

cfg == [dc |-> dc_, rhoc |-> rhoc_, odf |-> outlierDeltaFactor_]

\* the constructor, with points_ empty
EngineInit(dcs, rhocs, odfs, ppts) ==
  /\ dc_ \in dcs
  /\ rhoc_ \in rhocs
  /\ outlierDeltaFactor_ \in odfs
  /\ pointsPerTile_ \in ppts
  /\ n = 0
  /\ coordinates_ = EmptyVec
  /\ weight = EmptyVec
  /\ rho = EmptyVec
  /\ delta = EmptyVec
  /\ nearestHigher = EmptyVec
  /\ followers = EmptyVec
  /\ clusterIndex = EmptyVec
  /\ isSeed = EmptyVec
  /\ phase = "idle"
  /\ localStack = <<>>
  /\ calls = 0
  /\ setPointsRet = FALSE
  /\ returns = <<>>
  /\ printed = FALSE
  /\ stage = "constructed"
  /\ grid = NoGrid

\* setPoints(n, coordinates, weight)
SetPoints(np, x, w) ==
  /\ phase = "idle"
  /\ calls < MaxCalls
  /\ calls' = calls + 1
  /\ coordinates_' = x
  /\ weight' = w
  /\ n' = np
  /\ IF np = 0
       THEN /\ setPointsRet' = TRUE
            /\ UNCHANGED outVars
       ELSE /\ rho' = VecResize(rho, np, 0)
            /\ delta' = VecResize(delta, np, FloatMax)
            /\ nearestHigher' = VecResize(nearestHigher, np, -1)
            /\ followers' = VecResize(followers, np, <<>>)
            /\ clusterIndex' = VecResize(clusterIndex, np, -1)
            /\ isSeed' = VecResize(isSeed, np, 0)
            /\ setPointsRet' = FALSE
  /\ returns' = <<>>
  /\ printed' = FALSE
  /\ stage' = "setPoints"
  /\ grid' = NoGrid
  /\ UNCHANGED <<cfgVars, runVars, vecVars>>

\* makeClusters is called on points that were set
CanMakeClusters ==
  /\ phase = "idle"
  /\ stage # "constructed"
  /\ calls < MaxCalls

\* makeClusters with no points.  calculateNTiles prints; calculateTileSize
\* dereferences max_element of an empty range, which is undefined: the call
\* either dies there, or reads some value, runs every loop zero times and
\* returns the arrays as they are
MakeClustersEmpty ==
  /\ CanMakeClusters
  /\ n = 0
  /\ calls' = calls + 1
  /\ printed' = (calculateNTiles(n, pointsPerTile_) = 0)
  /\ grid' = [NoGrid EXCEPT !.nTiles = 0, !.NperDim = 0]
  /\ \/ /\ phase' = "undefined"
        /\ stage' = "calculateTileSize"
        /\ UNCHANGED returns
     \/ /\ phase' = "idle"
        /\ stage' = "returned"
        /\ returns' = Append(returns, <<clusterIndex, isSeed>>)
  /\ UNCHANGED <<cfgVars, inVars, outVars, localStack, setPointsRet, vecVars>>

\* makeClusters with fewer points than pointsPerTile_: calculateNTiles
\* prints and returns 0, the grid gets no bins, and the first tiles.fill
\* appends to a bin that does not exist
MakeClustersNoTiles ==
  /\ CanMakeClusters
  /\ n > 0
  /\ calculateNTiles(n, pointsPerTile_) = 0
  /\ calls' = calls + 1
  /\ printed' = TRUE
  /\ grid' = calculateTileSize(0, coordinates_)
  /\ phase' = "undefined"
  /\ stage' = "prepareDataStructures"
  /\ UNCHANGED <<cfgVars, inVars, outVars, localStack, setPointsRet, returns, vecVars>>

\* the result arrays of points_
Outputs == [rho |-> rho, delta |-> delta, nearestHigher |-> nearestHigher,
            followers |-> followers, clusterIndex |-> clusterIndex, isSeed |-> isSeed]

\* the three point-wise phases and the first loop of findAndAssignClusters
\* over the grid T whose bins are given, starting from the result arrays o
Phases(T, bins, o) ==
  LET rhoN == calculateLocalDensity(T, bins, coordinates_, weight, o.rho, dc_)
      dh == calculateDistanceToHigher(T, bins, coordinates_, rhoN, dc_,
                                      outlierDeltaFactor_)
      deltaN == [i \in DOMAIN o.delta |->
                   IF i \in DOMAIN dh THEN dh[i].delta ELSE o.delta[i]]
      nhN == [i \in DOMAIN o.nearestHigher |->
                IF i \in DOMAIN dh THEN dh[i].nearestHigher ELSE o.nearestHigher[i]]
      st == Classify(0, n, deltaN, rhoN, nhN, cfg,
                     [nClusters |-> 0, localStack |-> <<>>,
                      clusterIndex |-> o.clusterIndex, isSeed |-> o.isSeed,
                      followers |-> o.followers, oob |-> FALSE])
  IN [rho |-> rhoN, delta |-> deltaN, nearestHigher |-> nhN, st |-> st]

\* makeClusters from the grid on, up to the propagation loop; it returns at
\* once when there is no seed
Clusterize(T, bins) ==
  LET p == Phases(T, bins, Outputs)
  IN /\ grid' = T
     /\ rho' = p.rho
     /\ delta' = p.delta
     /\ nearestHigher' = p.nearestHigher
     /\ IF p.st.oob
          THEN /\ phase' = "undefined"
               /\ stage' = "findAndAssignClusters"
               /\ UNCHANGED <<followers, clusterIndex, isSeed, localStack, returns>>
          ELSE /\ followers' = p.st.followers
               /\ clusterIndex' = p.st.clusterIndex
               /\ isSeed' = p.st.isSeed
               /\ localStack' = p.st.localStack
               /\ IF p.st.localStack = <<>>
                    THEN /\ phase' = "idle"
                         /\ stage' = "returned"
                         /\ returns' = Append(returns, <<p.st.clusterIndex, p.st.isSeed>>)
                    ELSE /\ phase' = "propagate"
                         /\ stage' = "findAndAssignClusters"
                         /\ UNCHANGED returns

\* makeClusters on the serial backend
MakeClustersRun ==
  /\ CanMakeClusters
  /\ n > 0
  /\ calculateNTiles(n, pointsPerTile_) > 0
  /\ calls' = calls + 1
  /\ printed' = FALSE
  /\ LET T == calculateTileSize(calculateNTiles(n, pointsPerTile_), coordinates_)
     IN Clusterize(T, prepareDataStructures(T, coordinates_))
  /\ UNCHANGED <<cfgVars, inVars, setPointsRet, vecVars>>

Range(q) == {q[k] : k \in DOMAIN q}

\* one turn of the while loop of findAndAssignClusters (lines 346-358); the
\* turn that empties the stack ends the loop and makeClusters returns
PropagateStep ==
  /\ phase = "propagate"
  /\ localStack # <<>>
  /\ LET i == localStack[Len(localStack)]
         fs == followers[i]
         rest == SubSeq(localStack, 1, Len(localStack) - 1)
         ci == [j \in DOMAIN clusterIndex |->
                  IF j \in Range(fs) THEN clusterIndex[i] ELSE clusterIndex[j]]
     IN IF \E k \in DOMAIN fs : fs[k] \notin DOMAIN clusterIndex
          THEN \* clusterIndex[j] written past the end of the vector
               /\ phase' = "undefined"
               /\ UNCHANGED <<clusterIndex, localStack, returns, stage>>
        ELSE IF Len(rest) + Len(fs) > MaxStack
          THEN \* localStack.push_back throws std::bad_alloc
               /\ phase' = "exhausted"
               /\ UNCHANGED <<clusterIndex, localStack, returns, stage>>
        ELSE /\ clusterIndex' = ci
             /\ localStack' = rest \o fs
             /\ IF rest \o fs = <<>>
                  THEN /\ phase' = "idle"
                       /\ stage' = "returned"
                       /\ returns' = Append(returns, <<ci, isSeed>>)
                  ELSE /\ phase' = "propagate"
                       /\ UNCHANGED <<returns, stage>>
  /\ UNCHANGED <<cfgVars, inVars, rho, delta, nearestHigher, followers, isSeed,
                 calls, setPointsRet, printed, grid, vecVars>>

PointSets(np, cs) == [0..(np - 1) -> cs]

SetPointsAny ==
  \E np \in 0..MaxN : \E x \in PointSets(np, Coords) : \E w \in PointSets(np, Weights) :
    SetPoints(np, x, w)

Init ==
  /\ EngineInit(DcValues, RhocValues, OdfValues, PptValues)
  /\ VecInit(0)

Next ==
  \/ SetPointsAny
  \/ MakeClustersEmpty
  \/ MakeClustersNoTiles
  \/ MakeClustersRun
  \/ PropagateStep

Spec == Init /\ [][Next]_vars

\* a makeClusters call that has started keeps running
FairSpec == Spec /\ WF_vars(PropagateStep)

(* ------------------------------ SpecVec -------------------------------- *)
\* a Vec on its own: the engine stays as constructed
InitVec ==
  /\ EngineInit({1}, {2}, {1}, {1})
  /\ \E cap \in 0..MaxCapacity : VecInit(cap)

NextVec ==
  \/ \E t \in Threads : Reserve(t) /\ UNCHANGED engineVars
  \/ \E t \in Threads : WriteSlot(t) /\ UNCHANGED engineVars
  \/ \E t \in Threads : Rollback(t) /\ UNCHANGED engineVars
  \/ PushBackUnsafe /\ UNCHANGED engineVars

SpecVec == InitVec /\ [][NextVec]_vars

(***************************************************************************)
(*                         properties of the engine                        *)
(***************************************************************************)
MakeClustersCalled == stage \notin {"constructed", "setPoints"}
ClassSeed(i) == IsSeedPoint(delta[i], rho[i], dc_, rhoc_)
ClassOutlier(i) == IsOutlierPoint(delta[i], rho[i], dc_, rhoc_, outlierDeltaFactor_)
\* the cluster id the first loop gives seed i: the number of seeds before it
SeedId(i) == Cardinality({k \in 0..(i - 1) : ClassSeed(k)})
RECURSIVE ReachesSeed(_, _, _)
ReachesSeed(i, c, fuel) ==
  IF ClassSeed(i) THEN SeedId(i) = c
  ELSE /\ ~ClassOutlier(i)
       /\ fuel > 0
       /\ nearestHigher[i] \in 0..(n - 1)
       /\ ReachesSeed(nearestHigher[i], c, fuel - 1)

\* C2: every makeClusters call made since the last setPoints returned the
\* (clusterIndex, isSeed) arrays the first of them returned.
C2_Idempotent == \A k \in DOMAIN returns : returns[k] = returns[1]

\* C3: a makeClusters call that has entered the propagation loop leaves it.
C3_PropagationTerminates == (phase = "propagate") ~> (phase # "propagate")

\* C4: when makeClusters has returned, the number of points flagged isSeed
\* equals the number of distinct non-negative cluster ids, and every point
\* with id c >= 0 is the seed given id c or reaches it along nearestHigher
\* through points that are neither seed nor outlier.
C4_SeedsMatchClusters ==
  (stage = "returned" /\ n > 0) =>
    LET ci == returns[Len(returns)][1]
        sd == returns[Len(returns)][2]
    IN /\ Cardinality({i \in DOMAIN sd : sd[i] = 1})
            = Cardinality({ci[i] : i \in DOMAIN ci} \cap Nat)
       /\ \A i \in DOMAIN ci : ci[i] >= 0 => ReachesSeed(i, ci[i], n)

\* C6: when setPoints has returned with n > 0, every output array has length
\* n and holds its default at every index.
C6_SetPointsReinitializes ==
  (stage = "setPoints" /\ n > 0) =>
    /\ rho = [i \in 0..(n - 1) |-> 0]
    /\ delta = [i \in 0..(n - 1) |-> FloatMax]
    /\ nearestHigher = [i \in 0..(n - 1) |-> -1]
    /\ followers = [i \in 0..(n - 1) |-> <<>>]
    /\ clusterIndex = [i \in 0..(n - 1) |-> -1]
    /\ isSeed = [i \in 0..(n - 1) |-> 0]

\* C8: with zero points setPoints returned true, and a makeClusters call
\* sizes no grid, prints no diagnostic, does not fail and returns two empty
\* arrays.
C8_EmptyIsNoOp ==
  (n = 0 /\ MakeClustersCalled) =>
    /\ setPointsRet
    /\ grid = NoGrid
    /\ ~printed
    /\ phase = "idle"
    /\ returns # <<>>
    /\ returns[Len(returns)] = <<EmptyVec, EmptyVec>>

\* C9: a makeClusters call on n > 0 points with pointsPerTile_ > n stops
\* with a configuration error: it sizes and fills no grid and runs no later
\* phase.
C9_ConfigErrorStopsPipeline ==
  (n > 0 /\ pointsPerTile_ > n /\ MakeClustersCalled) =>
    /\ printed
    /\ grid = NoGrid
    /\ phase = "idle"
    /\ stage # "prepareDataStructures"

\* C10: once the first loop of findAndAssignClusters has run, every point
\* that is neither seed nor outlier has a nearestHigher in [0, n).
C10_FollowerHasNearestHigher ==
  (n > 0 /\ stage \in {"findAndAssignClusters", "returned"}) =>
    \A i \in 0..(n - 1) :
      (~ClassSeed(i) /\ ~ClassOutlier(i)) => nearestHigher[i] \in 0..(n - 1)

\* C10 narrowed to cut-offs whose comparisons against FloatMax can succeed
C10_ForModerateCutoffs ==
  (dc_ < FloatMax /\ FMul(outlierDeltaFactor_, dc_) < FloatMax)
     => C10_FollowerHasNearestHigher

(* ------------------------------ SpecFill ------------------------------- *)
\* One makeClusters pass of a fresh engine on NThreads points whose grid has
\* a single tile (pointsPerTile_ = n).  The tile's bin is the Vec: worker t
\* runs tiles.fill for point t - 1, which is push_back of that index.
FillCoords == {2 * k : k \in 0..FillMaxCoord}

InitFill ==
  /\ EngineInit(DcValues, RhocValues, OdfValues, {NThreads})
  /\ \E cap \in {NThreads - 1, NThreads} : VecInit(cap)

FillSetPoints ==
  /\ stage = "constructed"
  /\ \E x \in PointSets(NThreads, FillCoords) : \E w \in PointSets(NThreads, Weights) :
       SetPoints(NThreads, x, w)

Filling == stage = "setPoints"

\* the bin as the later phases read it: m_data[0 .. m_size)
BinContents == [k \in 1..m_size |-> m_data[k - 1]]

\* the phases that follow the fill, once every worker has returned
FillClusterize ==
  /\ Filling
  /\ \A t \in Threads : pc[t] = "done"
  /\ calls' = calls + 1
  /\ printed' = FALSE
  /\ LET T == calculateTileSize(calculateNTiles(n, pointsPerTile_), coordinates_)
     IN Clusterize(T, [b \in {0} |-> BinContents])
  /\ UNCHANGED <<cfgVars, inVars, setPointsRet, vecVars>>

NextFill ==
  \/ FillSetPoints
  \/ \E t \in Threads : Filling /\ Reserve(t) /\ UNCHANGED engineVars
  \/ \E t \in Threads : Filling /\ WriteSlot(t) /\ UNCHANGED engineVars
  \/ \E t \in Threads : Filling /\ Rollback(t) /\ UNCHANGED engineVars
  \/ FillClusterize
  \/ PropagateStep

SpecFill == InitFill /\ [][NextFill]_vars

\* the elements of S in increasing order
RECURSIVE Ascending(_)
Ascending(S) == IF S = {} THEN <<>> ELSE <<MinOf(S)>> \o Ascending(S \ {MinOf(S)})

\* the propagation loop run to its end
RECURSIVE Propagate(_, _, _, _)
Propagate(stack, fol, ci, fuel) ==
  IF stack = <<>> \/ fuel = 0 THEN ci
  ELSE LET i == stack[Len(stack)]
           fs == fol[i]
       IN Propagate(SubSeq(stack, 1, Len(stack) - 1) \o fs, fol,
                    [j \in DOMAIN ci |-> IF j \in Range(fs) THEN ci[i] ELSE ci[j]],
                    fuel - 1)

\* what makeClusters returns for the points set when the bin lists the same
\* members in increasing index order, as the serial fill leaves them
SameMembersInOrder ==
  LET T == calculateTileSize(calculateNTiles(n, pointsPerTile_), coordinates_)
      fresh == [rho |-> [i \in 0..(n - 1) |-> 0],
                delta |-> [i \in 0..(n - 1) |-> FloatMax],
                nearestHigher |-> [i \in 0..(n - 1) |-> -1],
                followers |-> [i \in 0..(n - 1) |-> <<>>],
                clusterIndex |-> [i \in 0..(n - 1) |-> -1],
                isSeed |-> [i \in 0..(n - 1) |-> 0]]
      p == Phases(T, [b \in {0} |-> Ascending(Range(BinContents))], fresh)
  IN <<Propagate(p.st.localStack, p.st.followers, p.st.clusterIndex, n * n + 1),
       p.st.isSeed>>

\* C5: when every point was stored in the bin, the (clusterIndex, isSeed) a
\* pass returns are those of the pass whose bin holds the same members in
\* increasing order, whatever order the workers' reservations produced.
C5_BinOrderIrrelevant ==
  (stage = "returned" /\ m_size = n) => (returns[1] = SameMembersInOrder)

(***************************************************************************)
(*                          properties of the Vec                          *)
(***************************************************************************)
Returned(c) == ret[c] # NoRet
\* no worker is between its reservation and its return
Quiescent == \A t \in Threads : pc[t] # "reserved"
Attempts == Cardinality({c \in Callers : Returned(c)})
WroteSomewhere(c) == \E k \in DOMAIN writers : c \in Range(writers[k])

\* C1: every push_back call that returned k >= 0 returned a k in [0, C) that
\* no other call returned, slot k still holds the element that call wrote,
\* and no slot was ever written twice.
C1_UniqueSlots ==
  /\ \A a \in Threads :
       ret[a] >= 0 =>
         /\ ret[a] \in 0..(m_capacity - 1)
         /\ m_data[ret[a]] = Element(a)
         /\ \A b \in Callers \ {a} : ret[b] # ret[a]
  /\ \A k \in DOMAIN writers : Len(writers[k]) <= 1

\* C1 witness: a worker has returned slot 1 while another worker, which
\* reserved slot 0 before it, has not written yet, and a third was refused.
C1_Witness ==
  \E a, b, c \in Threads :
    /\ ret[a] = 1
    /\ pc[b] = "reserved" /\ previousSize[b] = 0 /\ m_data[0] = Unwritten
    /\ ret[c] = -1

\* what the buffer holds once every call made has returned and more calls
\* were made than the capacity C: size = C; every call that saw size >= C
\* returned -1 and wrote no slot; exactly the excess calls were refused; and
\* each of the C slots holds the element of the one call that returned its
\* index.
OverflowDropsExcess ==
  (Quiescent /\ Attempts > m_capacity) =>
    /\ m_size = m_capacity
    /\ \A c \in Callers :
         (Returned(c) /\ sawSize[c] >= m_capacity) =>
           (ret[c] = -1 /\ ~WroteSomewhere(c))
    /\ Cardinality({c \in Callers : ret[c] = -1}) = Attempts - m_capacity
    /\ \A k \in 0..(m_capacity - 1) :
         /\ Len(writers[k]) = 1
         /\ m_data[k] = Element(writers[k][1])
         /\ ret[writers[k][1]] = k

\* C7: when more pushes were attempted than the capacity C and all calls
\* have returned: size = C, every call that found the buffer full returned
\* -1 and wrote nothing, the C stored elements are unchanged, and every
\* push_back that was refused reported the capacity overflow.
C7_OverflowSignalled ==
  /\ OverflowDropsExcess
  /\ (Quiescent /\ Attempts > m_capacity) =>
       \A t \in Threads : ret[t] = -1 => t \in reported

====
